---- MODULE Spec2Model ----
(***************************************************************************)
(* Differential evolution solvers of mystic/differential_evolution.py:     *)
(* DifferentialEvolutionSolver (sequential, in-place update),              *)
(* DifferentialEvolutionSolver2 (current generation invariant until the    *)
(* end of the iteration) and the minimal interface diffev.                 *)
(*                                                                         *)
(* Reals are modelled by integers.  Indices are 0-based as in the source.  *)
(* The AbstractSolver base class, mystic.tools (wrap_function,             *)
(* wrap_bounds, Sow), mystic.strategy and mystic.termination are imported  *)
(* by the source but are not part of it; they are modelled from the        *)
(* specification document.                                                 *)
(***************************************************************************)
EXTENDS Integers, Sequences, FiniteSets, TLC

\* ----------------------------------------------------------------- bounds
\* dimensionality of the problem (constructor argument dim)
nDim == 2
\* population size (constructor argument NP)
nPop == 4
\* largest iteration limit passed to SetEvaluationLimits
MaxIter == 2
\* largest number of Solve calls made on one solver instance
MaxSolves == 2
\* largest seed given to the random number generator
MaxSeed == 15
\* largest number of generations recorded in the step monitor
MaxGen == 3

\* ------------------------------------------------------ program constants
\* stand-in for the sentinel 1.0E20 (larger than every cost of the model)
Sentinel == 1000000000
\* stand-in for +infinity, returned by the bounds wrapper
Inf == 2000000000
\* "unset" limit (Python None)
None == 0 - 1

Dims == 0 .. (nDim - 1)
Slots == 0 .. (nPop - 1)

\* ------------------------------------------------------------ pure helpers
\* the user cost function: the sphere  f(x) = sum of x[d]^2
RECURSIVE SumSq(_, _)
SumSq(x, d) ==
    IF d = nDim THEN 0 ELSE x[d] * x[d] + SumSq(x, d + 1)

Cost(x) == SumSq(x, 0)

\* containment test of the bounds wrapper: no component below min or above max
InRange(x, lo, hi) == \A d \in Dims : lo[d] <= x[d] /\ x[d] <= hi[d]

\* _clipGuessWithinRangeBoundary: crop x0 at the bounds
ClipGuessWithinRangeBoundary(x, lo, hi) ==
    [d \in Dims |-> IF x[d] < lo[d] THEN lo[d]
                    ELSE IF x[d] > hi[d] THEN hi[d] ELSE x[d]]

\* components n, n+1, ..., n+L-1 (wrapping at nDim) taken by the exponential
\* crossover that starts at n and copies L >= 1 mutated components
Crossed(n, L) == {(n + k) % nDim : k \in 0 .. (L - 1)}

\* ScalingFactor, the multiplier of the difference vector
scale == 1

\* Best1Exp: base vector best-so-far, one difference vector of two members
\* r1, r2, exponential crossover into a copy of the target
Best1Exp(pop, best, cand, r1, r2, n, L) ==
    [d \in Dims |-> IF d \in Crossed(n, L)
                    THEN best[d] + scale * (pop[r1][d] - pop[r2][d])
                    ELSE pop[cand][d]]

\* the random module: a deterministic generator; one strategy call advances it
NextRandom(r) == (r * 11 + 7) % 1009

\* the k-th (from 0, ascending) element of a set of slots
Nth(S, k) == CHOOSE s \in S : Cardinality({t \in S : t < s}) = k

\* the random numbers a strategy call draws when the generator is in state r:
\* two members r1, r2 distinct from each other and from the target cand, the
\* start n of the crossover and the number L >= 1 of components it copies
Draw(r, cand) ==
    LET a == r % (nPop - 1)
        q1 == r \div (nPop - 1)
        b == q1 % (nPop - 2)
        q2 == q1 \div (nPop - 2)
        first == (cand + 1 + a) % nPop
    IN  [r1 |-> first,
         r2 |-> Nth(Slots \ {cand, first}, b),
         n |-> q2 % nDim,
         L |-> 1 + ((q2 \div nDim) % nDim)]

\* VTR(ftol): stop when best_energy <= ftol
VTR(tol, best_energy) == best_energy <= tol

\* ------------------------------------------------- collapse.py: the values
\* Python values that occur in masks and in detector results.  An item is a
\* scalar (ty "int": a Python int n; "npint": a numpy integer n, as np.where
\* returns them; "float": the non-integral number n + 1/2), a string of n
\* characters, or a tuple of n components.  Of a tuple the first component is
\* the scalar e1 of type t1; the second is the scalar e2 of type t2 or, when
\* t2 = "tuple", the pair (e2, e3).
Scalar(ty, a) ==
    [ty |-> ty, n |-> a, t1 |-> "", e1 |-> 0, t2 |-> "", e2 |-> 0, e3 |-> 0]

PyStr(k) ==
    [ty |-> "str", n |-> k, t1 |-> "", e1 |-> 0, t2 |-> "", e2 |-> 0, e3 |-> 0]

\* the tuple (a, b), or (a, b, ...) of k components, of scalars
Tuple(k, ta, a, tb, b) ==
    [ty |-> "tuple", n |-> k, t1 |-> ta, e1 |-> a, t2 |-> tb, e2 |-> b, e3 |-> 0]

\* the tuple (m, (i, j))
Nested(tm, m, i, j) ==
    [ty |-> "tuple", n |-> 2, t1 |-> tm, e1 |-> m, t2 |-> "tuple",
     e2 |-> i, e3 |-> j]

\* hasattr(i, '__len__')
HasLen(i) == i.ty \in {"str", "tuple"}

\* Python == and hash do not tell an int from a numpy integer of equal value
Untyped(ty) == IF ty \in {"int", "npint"} THEN "int" ELSE ty

Key(i) == [i EXCEPT !.ty = Untyped(@), !.t1 = Untyped(@), !.t2 = Untyped(@)]

\* i in s, for a set or a sequence s of items given as the set of its members
PyIn(i, s) == \E k \in s : Key(k) = Key(i)

\* x - s of two Python sets
PyMinus(x, s) == {i \in x : ~PyIn(i, s)}

\* mystic.tools._inverted on one pair: the pair reversed
Inverted(i) ==
    IF i.t2 = "tuple"
    THEN [i EXCEPT !.e2 = i.e3, !.e3 = i.e2]
    ELSE [i EXCEPT !.t1 = i.t2, !.e1 = i.e2, !.t2 = i.t1, !.e2 = i.e1]

\* the members of a sequence
Members(s) == {s[k] : k \in 1 .. Len(s)}

\* an entry key: value of a Python dict; isset tells whether the value is a set
DictEntry(key, isset, value) == [k |-> key, isset |-> isset, v |-> value]

\* A mask, and the value a detector returns: None, a set of items, a dict, a
\* tuple of len components (of a tuple of two tuples: measures and items), a
\* string of len characters, or an int
PyNone ==
    [kind |-> "None", elems |-> {}, entries |-> {}, len |-> 0,
     measures |-> << >>, items |-> << >>]

PySet(s) == [PyNone EXCEPT !.kind = "set", !.elems = s]

PyDict(d) == [PyNone EXCEPT !.kind = "dict", !.entries = d]

Where(ms, is) ==
    [PyNone EXCEPT !.kind = "tuple", !.len = 2, !.measures = ms, !.items = is]

EmptyTuple == [PyNone EXCEPT !.kind = "tuple"]

PyString(k) == [PyNone EXCEPT !.kind = "str", !.len = k]

PyInt == [PyNone EXCEPT !.kind = "int"]

\* hasattr(mask, '__len__') and len(mask)
MaskHasLen(mask) == mask.kind \in {"set", "dict", "tuple", "str"}

MaskLen(mask) ==
    IF mask.kind = "set" THEN Cardinality(mask.elems)
    ELSE IF mask.kind = "dict" THEN Cardinality(mask.entries)
    ELSE mask.len

\* numpy.array(s).ndim of a tuple s of items: 1 for scalars (and for the empty
\* tuple), 2 for tuples of scalars of one length, 1 (an array of objects)
\* for anything ragged
ArrayNdim(s) ==
    IF \A k \in 1 .. Len(s) : s[k].ty = "tuple" /\ s[k].t2 # "tuple"
                                 /\ s[k].n = s[1].n
    THEN IF Len(s) = 0 THEN 1 ELSE 2
    ELSE 1

\* numpy.array(mask).ndim
MaskNdim(mask) ==
    IF mask.kind # "tuple" THEN 0
    ELSE IF mask.len # 2 THEN 1
    ELSE IF /\ Len(mask.measures) = Len(mask.items)
            /\ ArrayNdim(mask.measures) = ArrayNdim(mask.items)
            /\ \A i \in Members(mask.measures) \cup Members(mask.items) :
                   i.ty # "str"
         THEN 1 + ArrayNdim(mask.items)
         ELSE 1

\* what a call returns or raises: raised is "none" or the exception class, read
\* tells whether the monitor had been read, value is the value returned
Returned(v) == [raised |-> "none", read |-> TRUE, value |-> v]

Raised(class, read) == [raised |-> class, read |-> read, value |-> PyNone]

\* ------------------------------------------------ collapse.py: the monitor
\* the product measure whose parameters the monitor records: its measures and
\* the support points (a weight and a position each) of every measure
Measures == {0, 1}

Points == {0, 1}

nMeasures == Cardinality(Measures)

nPts == Cardinality(Points)

Params == 0 .. (nMeasures * 2 * nPts - 1)

Abs(a) == IF a < 0 THEN 0 - a ELSE a

\* numpy max and ptp (max - min) of a non-empty collection of numbers
Max(s) == CHOOSE a \in s : \A b \in s : b <= a

Min(s) == CHOOSE a \in s : \A b \in s : a <= b

Ptp(s) == Max(s) - Min(s)

\* a parameter vector the solver hands to its step monitor: for each measure
\* of the product measure nPts weights, then nPts positions
Sample(k) ==
    [j \in Params |-> (k * j + (j \div (2 * nPts)) * (k + 1)) % 3]

\* monitors._solutions(monitor, last): the parameter vectors of the last
\* `last` entries of the monitor (all entries when it holds fewer)
Solutions(x, last) ==
    SubSeq(x, IF Len(x) > last THEN Len(x) - last + 1 ELSE 1, Len(x))

\* the value parameter j has in the newest of the recorded vectors only
ColumnOfNewest(params, j) == {params[Len(params)][j]}

\* the values parameter j takes in the recorded vectors params
Column(params, j) == {params[g][j] : g \in 1 .. Len(params)}

\* monitors._weights(monitor, last): weight i of measure m in each entry
WeightAt(m, i) == m * 2 * nPts + i

\* monitors._positions(monitor, last): position i of measure m in each entry
PositionAt(m, i) == m * 2 * nPts + nPts + i

\* the target argument: None, or a value for each index (a scalar target is
\* the same value for every index)
NoTarget == [given |-> FALSE, v |-> [j \in Params |-> 0]]

Target(v) == [given |-> TRUE, v |-> v]

\* a comparison that keeps an index only when its change is the tolerance
WithinExactly(change, tolerance) ==
    \E r \in 1 .. Len(tolerance) : change = tolerance[r]

\* tolerance = np.asarray(tolerance); tolerance.shape = (-1,1); ... <= tolerance
\* a scalar tolerance is the sequence <<t>>; the comparison of the row of
\* changes with the column of tolerances is a matrix, of which np.where(..)[-1]
\* keeps the column (index) of every true entry
Within(change, tolerance) ==
    \E r \in 1 .. Len(tolerance) : change <= tolerance[r]

\* ---------------------------------------------- collapse.py: collapse_at
collapse_at(stepmon, target, tolerance, generations, mask) ==
    IF mask.kind = "None" \/ mask.kind = "set"
    THEN IF mask.kind = "set" /\ \E i \in mask.elems : HasLen(i)
         THEN Raised("ValueError", FALSE)
         ELSE LET params == Solutions(stepmon, generations)
                  change(j) ==
                      IF target.given
                      THEN Max({Abs(a - target.v[j]) : a \in Column(params, j)})
                      ELSE Ptp(Column(params, j))
                  where == {Scalar("npint", j) :
                               j \in {p \in Params : Within(change(p), tolerance)}}
              IN  IF Len(params) = 0
                  THEN Raised("ValueError", TRUE)
                  ELSE IF mask.kind = "None"
                       THEN Returned(PySet(where))
                       ELSE Returned(PySet({i \in where : ~PyIn(i, mask.elems)}))
    ELSE Raised("TypeError", FALSE)

\* ---------------------------------------------- collapse.py: collapse_as
\* tools.pairwise(x, True): the distance |x_i - x_j| of every pair of indices
\* i < j, in each recorded vector
Pairs(n) == {p \in (0 .. (n - 1)) \X (0 .. (n - 1)) : p[1] < p[2]}

Pairwise(params, p, at) ==
    {Abs(params[g][at[p[1]]] - params[g][at[p[2]]]) : g \in 1 .. Len(params)}

\* _split_mask: the elements that are Python ints, and all the others
SplitIndices(mask) == {i \in mask : i.ty = "int"}

SplitTuples(mask) == {i \in mask : i.ty # "int"}

\* a pair selector that knows the pairs of the mask in the order given only
PairSelectorAsGiven(mask, x) == PyIn(x, mask)

\* _pair_selector(mask)(x): tuple(x) in mask or tuple(x) in _inverted(mask)
PairSelector(mask, x) == PyIn(x, mask) \/ PyIn(x, {Inverted(i) : i \in mask})

\* _index_selector(mask)(x): int(x[0]) in mask or int(x[1]) in mask
IndexSelector(mask, x) ==
    PyIn(Scalar("int", x.e1), mask) \/ PyIn(Scalar("int", x.e2), mask)

\* selector(mask)(x)
Selector(mask, x) ==
    PairSelector(SplitTuples(mask), x) \/ IndexSelector(SplitIndices(mask), x)

\* selector(mask)(x) raises when _inverted meets an element that cannot be
\* reversed: _inverted is evaluated once tuple(x) is not found in the mask
SelectorRaises(mask, x) ==
    /\ ~PyIn(x, SplitTuples(mask))
    /\ \E i \in SplitTuples(mask) : ~HasLen(i)

IdIndex == [j \in Params |-> j]

collapse_as(stepmon, offset, tolerance, generations, mask) ==
    IF mask.kind = "None" \/ mask.kind = "set"
    THEN IF mask.kind = "set" /\ \E i \in mask.elems : HasLen(i) /\ i.n # 2
         THEN Raised("ValueError", FALSE)
         ELSE LET params == Solutions(stepmon, generations)
                  change(p) == IF offset
                               THEN Ptp(Pairwise(params, p, IdIndex))
                               ELSE Max(Pairwise(params, p, IdIndex))
                  distances ==
                      {Tuple(2, "npint", p[1], "npint", p[2]) :
                          p \in {q \in Pairs(nMeasures * 2 * nPts) :
                                    change(q) <= tolerance[1]}}
              IN  IF Len(params) = 0
                  THEN Raised("ValueError", TRUE)
                  ELSE IF mask.kind = "None"
                       THEN Returned(PySet(distances))
                       ELSE IF \E x \in distances :
                                   SelectorRaises(mask.elems, x)
                            THEN Raised("TypeError", TRUE)
                            ELSE Returned(PySet({x \in distances :
                                                  ~Selector(mask.elems, x)}))
    ELSE Raised("TypeError", FALSE)

\* ------------------------------------------ collapse.py: collapse_weight
\* the tuple that lists the members of s by ascending rank
Sorted(s, rank) ==
    [k \in 1 .. Cardinality(s) |->
        CHOOSE e \in s : Cardinality({f \in s : rank[f] < rank[e]}) = k - 1]

\* itertools.izip(*mask) of a mask (measures, items) in 'where' notation: the
\* tuples (measure, item)
Zipped(mask) ==
    {IF mask.items[k].ty = "tuple"
     THEN Nested(mask.measures[k].ty, mask.measures[k].n,
                 mask.items[k].e1, mask.items[k].e2)
     ELSE Tuple(2, mask.measures[k].ty, mask.measures[k].n,
                mask.items[k].ty, mask.items[k].n) :
        k \in 1 .. Min({Len(mask.measures), Len(mask.items)})}

\* the tuples (measure, item) of a dict {measure: set of items}
Items(d) ==
    {IF p[2].ty = "tuple"
     THEN Nested(p[1].k.ty, p[1].k.n, p[2].e1, p[2].e2)
     ELSE Tuple(2, p[1].k.ty, p[1].k.n, p[2].ty, p[2].n) :
        p \in {q \in d.entries \X UNION {f.v : f \in d.entries} :
                  q[2] \in q[1].v}}

\* the dict {measure: set of items} of a set of tuples (measure, item), with
\* measure a Python int; item[c] is the item of tuple c
AsDict(cells, item) ==
    PyDict({DictEntry(Scalar("int", m), TRUE,
                      {item[c] : c \in {d \in cells : d.e1 = m}}) :
               m \in {c.e1 : c \in cells}})

\* tools._symmetric(pairs): the pairs and the pairs reversed
Symmetric(s) == s \cup {Inverted(i) : i \in s}

\* mask.get(i, set()) of a dict mask
Get(mask, i) ==
    IF \E d \in mask.entries : Key(d.k) = Key(i)
    THEN (CHOOSE d \in mask.entries : Key(d.k) = Key(i)).v
    ELSE {}

\* the dict x without what the dict mask holds, entries left empty dropped;
\* the items of the mask are taken in both orders when symmetric
DictMinus(x, mask, symmetric) ==
    PyDict({e \in {DictEntry(d.k, TRUE,
                             PyMinus(d.v, IF symmetric
                                          THEN Symmetric(Get(mask, d.k))
                                          ELSE Get(mask, d.k))) :
                      d \in x.entries} : e.v # {}})

\* the tuple (measures, items) of the cells in the order given by rank, or ()
\* when there is none
AsWhere(cells, rank, measure, item) ==
    IF cells = {} THEN EmptyTuple
    ELSE LET s == Sorted(cells, rank) IN
             Where([k \in 1 .. Len(s) |-> measure[s[k]]],
                   [k \in 1 .. Len(s) |-> item[s[k]]])

\* the mask checks of collapse_weight: the exception raised, or "none"
WeightMaskCheck(mask) ==
    IF mask.kind = "None" THEN "none"
    ELSE IF mask.kind = "set"
    THEN IF \E i \in mask.elems :
               \/ ~HasLen(i) \/ i.n # 2
               \/ i.t1 # "int" \/ i.t2 # "int"
         THEN "ValueError" ELSE "none"
    ELSE IF mask.kind = "dict"
    THEN IF \E d \in mask.entries :
               \/ ~d.isset \/ d.k.ty # "int"
               \/ \E k \in d.v : HasLen(k)
         THEN "ValueError" ELSE "none"
    ELSE IF MaskHasLen(mask) /\ MaskLen(mask) = 2
    THEN IF MaskNdim(mask) # 2 THEN "TypeError" ELSE "none"
    ELSE IF MaskHasLen(mask) /\ MaskLen(mask) = 0
    THEN "none"
    ELSE "TypeError"

WeightRank(c) == c.e1 * nPts + c.e2

WeightMeasure(c) == Scalar("npint", c.e1)

WeightItem(c) == Scalar("npint", c.e2)

collapse_weight(stepmon, tolerance, generations, mask) ==
    IF WeightMaskCheck(mask) # "none"
    THEN Raised(WeightMaskCheck(mask), FALSE)
    ELSE LET params == Solutions(stepmon, generations)
             weights ==
                 {c \in Measures \X Points :
                     Max(Column(params, WeightAt(c[1], c[2]))) <= tolerance[1]}
             wts == {Tuple(2, "npint", c[1], "npint", c[2]) : c \in weights}
         IN  IF Len(params) = 0
             THEN Raised("ValueError", TRUE)
             ELSE IF mask.kind = "set"
             THEN Returned(PySet(PyMinus(wts, mask.elems)))
             ELSE IF mask.kind \notin {"None", "dict"}
             THEN LET kept == PyMinus(wts, Zipped(mask)) IN
                      Returned(AsWhere(kept,
                                       [c \in kept |-> WeightRank(c)],
                                       [c \in kept |-> WeightMeasure(c)],
                                       [c \in kept |-> WeightItem(c)]))
             ELSE IF wts = {}
             THEN Returned(PyDict({}))
             ELSE IF mask.kind = "None"
             THEN Returned(AsDict(wts, [c \in wts |-> WeightItem(c)]))
             ELSE Returned(DictMinus(AsDict(wts, [c \in wts |-> WeightItem(c)]),
                                     mask, FALSE))

\* ---------------------------------------- collapse.py: collapse_position
\* the mask checks of collapse_position: the exception raised, or "none"
PositionMaskCheck(mask) ==
    IF mask.kind = "None" THEN "none"
    ELSE IF mask.kind = "set"
    THEN IF \E i \in mask.elems :
               \/ ~HasLen(i) \/ i.n # 2
               \/ i.t1 # "int"
               \/ i.t2 # "tuple"
         THEN "ValueError" ELSE "none"
    ELSE IF mask.kind = "dict"
    THEN IF \E d \in mask.entries :
               \/ ~d.isset \/ d.k.ty # "int"
               \/ \E k \in d.v : ~HasLen(k) \/ k.n # 2
         THEN "ValueError" ELSE "none"
    ELSE IF MaskHasLen(mask) /\ MaskLen(mask) = 2
    THEN IF \/ mask.kind # "tuple"
            \/ ArrayNdim(mask.measures) # 1
            \/ ArrayNdim(mask.items) # 2
         THEN "TypeError" ELSE "none"
    ELSE IF MaskHasLen(mask) /\ MaskLen(mask) = 0
    THEN "none"
    ELSE "TypeError"

PositionRank(c) == (c.e1 * nPts + c.e2) * nPts + c.e3

PositionMeasure(c) == Scalar("int", c.e1)

PositionItem(c) == Tuple(2, "npint", c.e2, "npint", c.e3)

\* An empty mask that is no set and no dict passes the check as
\* type(mask)(((),())); of a string that is the text '((), ())', which
\* _position_filter cannot unpack into measures and pairs (ValueError).
collapse_position(stepmon, tolerance, generations, mask) ==
    IF PositionMaskCheck(mask) # "none"
    THEN Raised(PositionMaskCheck(mask), FALSE)
    ELSE LET params == Solutions(stepmon, generations)
             collapsed_pairs ==
                 {c \in Measures \X Pairs(nPts) :
                     Max(Pairwise(params, c[2],
                                  [i \in Points |-> PositionAt(c[1], i)]))
                         <= tolerance[1]}
             distances == {Nested("int", c[1], c[2][1], c[2][2]) :
                              c \in collapsed_pairs}
         IN  IF Len(params) = 0
             THEN Raised("ValueError", TRUE)
             ELSE IF mask.kind = "set"
             THEN Returned(PySet(PyMinus(distances, Symmetric(mask.elems))))
             ELSE IF mask.kind = "str"
             THEN Raised("ValueError", TRUE)
             ELSE IF mask.kind \notin {"None", "dict"}
             THEN LET kept == PyMinus(distances, Symmetric(Zipped(mask))) IN
                      Returned(AsWhere(kept,
                                       [c \in kept |-> PositionRank(c)],
                                       [c \in kept |-> PositionMeasure(c)],
                                       [c \in kept |-> PositionItem(c)]))
             ELSE IF mask.kind = "None"
             THEN Returned(AsDict(distances,
                                  [c \in distances |-> PositionItem(c)]))
             ELSE Returned(DictMinus(AsDict(distances,
                                            [c \in distances |->
                                                PositionItem(c)]),
                                     mask, TRUE))

\* ------------------------------------------------ collapse.py: collapsed
\* A string is a sequence of characters; the text repr(v) of a collapse result
\* holds neither "; " nor " at " and is kept as one piece.  repr prints a numpy
\* integer like an int, so that eval of the text gives the value with Python
\* ints in the place of numpy integers.
Ch(c) == [c |-> c, v |-> PyNone]

Str(s) == [k \in 1 .. Len(s) |-> Ch(s[k])]

PrintedItem(i) ==
    [i EXCEPT !.ty = Untyped(@), !.t1 = Untyped(@), !.t2 = Untyped(@)]

Printed(v) ==
    [v EXCEPT
        !.elems = {PrintedItem(i) : i \in @},
        !.entries = {DictEntry(PrintedItem(d.k), d.isset,
                               {PrintedItem(i) : i \in d.v}) : d \in @},
        !.measures = [k \in 1 .. Len(@) |-> PrintedItem(@[k])],
        !.items = [k \in 1 .. Len(@) |-> PrintedItem(@[k])]]

Repr(v) == <<[c |-> "repr", v |-> Printed(v)]>>

\* the positions at which pattern pat occurs in string s
Occurrences(s, pat) ==
    {i \in 1 .. (Len(s) - Len(pat) + 1) : SubSeq(s, i, i + Len(pat) - 1) = pat}

\* s.split(pat)
RECURSIVE Split(_, _)
Split(s, pat) ==
    IF Occurrences(s, pat) = {} THEN <<s>>
    ELSE LET i == Min(Occurrences(s, pat)) IN
             <<SubSeq(s, 1, i - 1)>>
                 \o Split(SubSeq(s, i + Len(pat), Len(s)), pat)

\* s.split(pat, 1): at the first occurrence
LSplit(s, pat) ==
    IF Occurrences(s, pat) = {} THEN <<s>>
    ELSE LET i == Min(Occurrences(s, pat)) IN
             <<SubSeq(s, 1, i - 1), SubSeq(s, i + Len(pat), Len(s))>>

\* s.rsplit(pat, 1): at the last occurrence
RSplit(s, pat) ==
    IF Occurrences(s, pat) = {} THEN <<s>>
    ELSE LET i == Max(Occurrences(s, pat)) IN
             <<SubSeq(s, 1, i - 1), SubSeq(s, i + Len(pat), Len(s))>>

\* eval(msg) succeeds on the text of a collapse result
Evaluates(msg) == Len(msg) = 1 /\ msg[1].c = "repr"

\* the dict collapses after the loop body has run on the parts of the message
\* in turn: a set of entries name: value, a later entry replacing an earlier
\* one of the same name
RECURSIVE Collapses(_)
Collapses(parts) ==
    IF Len(parts) = 0 THEN {}
    ELSE LET before == Collapses(SubSeq(parts, 1, Len(parts) - 1))
             message == RSplit(parts[Len(parts)], Str(<<" ", "a", "t", " ">>))
             msg == message[Len(message)]
         IN  IF Len(message) = 1 THEN before
             ELSE {e \in before : e.name # message[1]}
                      \cup {[name |-> message[1], value |-> msg[1].v]}

\* collapsed(message): the dict, None when it is empty; eval raises on a
\* payload that is no expression
collapsed(message) ==
    LET parts == Split(message, Str(<<";", " ">>)) IN
        IF \E k \in 1 .. Len(parts) :
               LET m == RSplit(parts[k], Str(<<" ", "a", "t", " ">>)) IN
                   Len(m) = 2 /\ ~Evaluates(m[2])
        THEN [raised |-> "SyntaxError", none |-> FALSE, entries |-> {}]
        ELSE [raised |-> "none", none |-> Collapses(parts) = {},
              entries |-> Collapses(parts)]

\* ------------------------------------------------------------------ state
VARIABLES
    \* fields of the solver instance
    population, popEnergy, bestSolution, bestEnergy, trialSolution,
    energy_history, genealogy, generations,
    maxiter, maxfun, useStrictRange, strictMin, strictMax, EARLYEXIT,
    \* locals of Solve
    fcalls, generation, candidate, trialPop, trialEnergy, pc,
    \* arguments and locals of diffev
    invariant_current, ftol, evalmon, stepmon, warnflag,
    \* state of the random number generator (seeded before the run)
    rng,
    \* bookkeeping of the run, read by the properties only
    started, ncost, ncallback, stopReason, solves,
    genStart, seen, accepted, processed, intGen, intPc,
    \* a second run of the same solver, evaluated by another mapper
    shadow,
    \* the vectors recorded in the step monitor (stepmon.x), the last call of
    \* a collapse detector, and what that call returned
    monitor, call, result,
    \* the stop reason of a termination condition and the clauses it was
    \* joined from, and what collapsed returned for it
    message, collapses

solverVars == <<population, popEnergy, bestSolution, bestEnergy, trialSolution,
                energy_history, genealogy, generations,
                maxiter, maxfun, useStrictRange, strictMin, strictMax, EARLYEXIT>>
localVars == <<fcalls, generation, candidate, trialPop, trialEnergy, pc>>
diffevVars == <<invariant_current, ftol, evalmon, stepmon, warnflag>>
ghostVars == <<started, ncost, ncallback, stopReason, solves,
               genStart, seen, accepted, processed, intGen, intPc>>
codecVars == <<message, collapses>>
collapseVars == <<monitor, call, result, codecVars>>
solveVars == <<solverVars, localVars, diffevVars, rng, ghostVars>>
vars == <<solveVars, shadow, collapseVars>>

\* no detector has been called
NoCall ==
    [detector |-> "none", fed |-> FALSE, target |-> NoTarget, offset |-> FALSE,
     tolerance |-> <<0>>, generations |-> 1, mask |-> PyNone]

NoResult == [raised |-> "nocall", read |-> FALSE, value |-> PyNone]

\* no stop reason has been written
NoMessage == [text |-> << >>, clauses |-> << >>]

NoCollapses == [raised |-> "nocall", none |-> TRUE, entries |-> {}]

Zero == [d \in Dims |-> 0]

\* the solver fields a strategy or a termination predicate can read
Snapshot == [population |-> population, popEnergy |-> popEnergy,
             bestSolution |-> bestSolution, bestEnergy |-> bestEnergy]

\* initial points: SetRandomInitialPoints / SetInitialPoints
InitialPoints(k) == [i \in Slots |-> [d \in Dims |-> ((i + d + k) % 3) - k]]

InitialPopulations == {InitialPoints(k) : k \in 0 .. 1}

\* SetStrictRanges(min, max): the strict range used by the model
RangeMin == [d \in Dims |-> 1]
RangeMax == [d \in Dims |-> 2]

\* the tolerances given to VTR
FtolOptions == {0, 2}

\* the evaluation limits given to SetEvaluationLimits(maxiter, maxfun)
MaxiterOptions == 1 .. MaxIter
MaxfunOptions == {None, nPop - 1, nPop}

\* AbstractSolver.__init__ and DifferentialEvolutionSolver.__init__, followed by
\* the configuration calls of diffev (SetEvaluationLimits, SetStrictRanges,
\* SetRandomInitialPoints or SetInitialPoints, enable_signal_handler)
Configured(classes, ranges, iterations, tolerances) ==
    /\ invariant_current \in classes
    /\ population \in InitialPopulations
    /\ popEnergy = [i \in Slots |-> Sentinel]
    /\ bestSolution = Zero
    /\ bestEnergy = 0
    /\ trialSolution = Zero
    /\ energy_history = << >>
    /\ genealogy = [i \in Slots |-> << >>]
    /\ generations = 0
    /\ maxiter \in iterations
    /\ maxfun \in MaxfunOptions
    /\ useStrictRange \in ranges
    /\ strictMin = RangeMin
    /\ strictMax = RangeMax
    /\ EARLYEXIT = FALSE
    /\ fcalls = 0
    /\ generation = 0
    /\ candidate = 0
    /\ trialPop = [i \in Slots |-> Zero]
    /\ trialEnergy = IF invariant_current THEN [i \in Slots |-> 0] ELSE 0
    /\ pc = "ready"
    /\ ftol \in tolerances
    /\ evalmon = 0
    /\ stepmon = 0
    /\ warnflag = 0
    /\ rng \in 0 .. MaxSeed
    /\ started = 0
    /\ ncost = 0
    /\ ncallback = 0
    /\ stopReason = "none"
    /\ solves = 0
    /\ genStart = Snapshot
    /\ seen = Snapshot
    /\ accepted = {}
    /\ processed = 0
    /\ intGen = None
    /\ intPc = "none"
    /\ shadow = [population |-> population, popEnergy |-> popEnergy,
                 bestSolution |-> bestSolution, bestEnergy |-> bestEnergy,
                 energy_history |-> energy_history,
                 trialSolution |-> trialSolution, trialPop |-> trialPop,
                 trialEnergy |-> 0, results |-> [i \in Slots |-> 0],
                 pending |-> {}, order |-> << >>, fcalls |-> 0]
    /\ monitor = << >>
    /\ message = NoMessage
    /\ collapses = NoCollapses
    /\ call = NoCall
    /\ result = NoResult

\* diffev with the limits and the tolerances the model uses
Constructed(classes, ranges) ==
    Configured(classes, ranges, MaxiterOptions, FtolOptions)

Init == Constructed(BOOLEAN, BOOLEAN)

\* --------------------------------------------------- the wrapped cost call
\* what one call of the wrapped cost function does: the value it returns, whether
\* the call counter is incremented (counted), whether the user cost function is
\* entered (called) and whether the evaluation monitor gets a record (recorded)

\* wrap_function: increment the counter, call f, feed the evaluation monitor
WrapFunction(x) ==
    [value |-> Cost(x), counted |-> 1, called |-> 1, recorded |-> 1]

\* wrap_bounds around g: +infinity without calling g when x leaves the range
WrapBounds(x, g) ==
    IF InRange(x, strictMin, strictMax)
    THEN g
    ELSE [value |-> Inf, counted |-> 0, called |-> 0, recorded |-> 0]

\* a wrapper that stops calling the cost once the counter has reached max_fun
CostfunctionCapped(x, ncalls) ==
    IF (useStrictRange /\ ~InRange(x, strictMin, strictMax)) \/ ncalls >= maxfun
    THEN [value |-> Inf, counted |-> 0, called |-> 0, recorded |-> 0]
    ELSE WrapFunction(x)

\* the two wrappers applied in the other order: the counting wrapper around
\* the bounds wrapper
CostfunctionCountingOutside(x, ncalls) ==
    IF useStrictRange /\ ~InRange(x, strictMin, strictMax)
    THEN [value |-> Inf, counted |-> 1, called |-> 0, recorded |-> 1]
    ELSE WrapFunction(x)

\* the costfunction Solve builds: wrap_function first, wrap_bounds around it
\* when strict ranges are in use; ncalls is the content of the counter cell
\* fcalls[0] when the call is made
Costfunction(x, ncalls) ==
    IF useStrictRange THEN WrapBounds(x, WrapFunction(x)) ELSE WrapFunction(x)

\* ------------------------------------------------------------------ Solve
\* a start-up that begins a new history
SolveStartFresh ==
    /\ pc = "ready"
    /\ EARLYEXIT' = FALSE
    /\ fcalls' = 0
    /\ population' =
         IF useStrictRange
         THEN [i \in Slots |->
                 ClipGuessWithinRangeBoundary(population[i], strictMin, strictMax)]
         ELSE population
    /\ bestEnergy' = Sentinel
    /\ energy_history' = << >>
    /\ maxiter' = IF maxiter = None THEN nDim * nPop * 10 ELSE maxiter
    /\ maxfun' = IF maxfun = None THEN nDim * nPop * 1000 ELSE maxfun
    /\ trialPop' = [i \in Slots |-> Zero]
    /\ generation' = 0
    /\ pc' = "loop"
    /\ started' = 0
    /\ ncost' = 0
    /\ stopReason' = "none"
    /\ solves' = solves + 1
    /\ accepted' = {}
    /\ processed' = 0
    /\ intGen' = None
    /\ intPc' = "none"
    /\ UNCHANGED <<popEnergy, bestSolution, trialSolution,
                   genealogy, generations, useStrictRange, strictMin, strictMax,
                   candidate, trialEnergy, diffevVars, rng, ncallback,
                   genStart, seen>>

\* start of Solve up to the generation loop
SolveStart ==
    /\ pc = "ready"
    /\ EARLYEXIT' = FALSE
    /\ fcalls' = 0
    /\ population' =
         IF useStrictRange
         THEN [i \in Slots |->
                 ClipGuessWithinRangeBoundary(population[i], strictMin, strictMax)]
         ELSE population
    /\ bestEnergy' = Sentinel
    /\ maxiter' = IF maxiter = None THEN nDim * nPop * 10 ELSE maxiter
    /\ maxfun' = IF maxfun = None THEN nDim * nPop * 1000 ELSE maxfun
    /\ trialPop' = [i \in Slots |-> Zero]
    /\ generation' = 0
    /\ pc' = "loop"
    /\ started' = 0
    /\ ncost' = 0
    /\ stopReason' = "none"
    /\ solves' = solves + 1
    /\ accepted' = {}
    /\ processed' = 0
    /\ intGen' = None
    /\ intPc' = "none"
    /\ UNCHANGED <<popEnergy, bestSolution, trialSolution, energy_history,
                   genealogy, generations, useStrictRange, strictMin, strictMax,
                   candidate, trialEnergy, diffevVars, rng, ncallback,
                   genStart, seen>>

\* for generation in range(self._maxiter + 1)
LoopHeadOneMore ==
    /\ pc = "loop"
    /\ IF started <= maxiter
       THEN /\ generation' = started
            /\ started' = started + 1
            /\ stepmon' = stepmon + 1
            /\ pc' = "limit"
            /\ stopReason' = stopReason
            /\ processed' = 0
            /\ accepted' = {}
       ELSE /\ pc' = "exit"
            /\ stopReason' = "maxiter"
            /\ UNCHANGED <<generation, started, stepmon, processed, accepted>>
    /\ UNCHANGED <<solverVars, fcalls, candidate, trialPop, trialEnergy,
                   invariant_current, ftol, evalmon, warnflag, rng,
                   ncost, ncallback, solves, genStart, seen, intGen, intPc>>

\* for generation in range(self._maxiter): StepMonitor(bestSolution, bestEnergy)
LoopHead ==
    /\ pc = "loop"
    /\ IF started < maxiter
       THEN /\ generation' = started
            /\ started' = started + 1
            /\ stepmon' = stepmon + 1
            /\ pc' = "limit"
            /\ stopReason' = stopReason
            /\ processed' = 0
            /\ accepted' = {}
       ELSE /\ pc' = "exit"
            /\ stopReason' = "maxiter"
            /\ UNCHANGED <<generation, started, stepmon, processed, accepted>>
    /\ UNCHANGED <<solverVars, fcalls, candidate, trialPop, trialEnergy,
                   invariant_current, ftol, evalmon, warnflag, rng,
                   ncost, ncallback, solves, genStart, seen, intGen, intPc>>

\* if fcalls[0] >= self._maxfun: break
LimitCheck ==
    /\ pc = "limit"
    /\ IF fcalls >= maxfun
       THEN /\ pc' = "exit"
            /\ stopReason' = "maxfun"
            /\ UNCHANGED <<candidate, genStart>>
       ELSE /\ pc' = "strategy"
            /\ candidate' = 0
            /\ genStart' = Snapshot
            /\ stopReason' = stopReason
    /\ UNCHANGED <<solverVars, fcalls, generation, trialPop, trialEnergy,
                   diffevVars, rng, started, ncost, ncallback, solves, seen,
                   accepted, processed, intGen, intPc>>

\* the strategy reading the state the generation started with
DE1StrategyViewFrozen == genStart

\* the solver state that strategy(self, candidate) reads in the sequential
\* solver: the instance as it is now
DE1StrategyView == Snapshot

\* strategy(self, candidate) of DifferentialEvolutionSolver.Solve
DE1Strategy ==
    /\ pc = "strategy"
    /\ ~invariant_current
    /\ rng' = NextRandom(rng)
    /\ LET dr == Draw(rng', candidate) IN
         trialSolution' =
              Best1Exp(DE1StrategyView.population, DE1StrategyView.bestSolution,
                       candidate, dr.r1, dr.r2, dr.n, dr.L)
    /\ seen' = DE1StrategyView
    /\ pc' = "cost"
    /\ UNCHANGED <<population, popEnergy, bestSolution, bestEnergy,
                   energy_history, genealogy, generations, maxiter, maxfun,
                   useStrictRange, strictMin, strictMax, EARLYEXIT,
                   fcalls, generation, candidate, trialPop, trialEnergy,
                   diffevVars, started, ncost, ncallback, stopReason, solves,
                   genStart, accepted, processed, intGen, intPc>>

\* trialEnergy = costfunction(self.trialSolution)
DE1Cost ==
    /\ pc = "cost"
    /\ ~invariant_current
    /\ LET r == Costfunction(trialSolution, fcalls) IN
         /\ trialEnergy' = r.value
         /\ fcalls' = fcalls + r.counted
         /\ ncost' = ncost + r.called
         /\ evalmon' = evalmon + r.recorded
    /\ pc' = "select"
    /\ UNCHANGED <<solverVars, generation, candidate, trialPop,
                   invariant_current, ftol, stepmon, warnflag, rng,
                   started, ncallback, stopReason, solves,
                   genStart, seen, accepted, processed, intGen, intPc>>

\* a selection step that also replaces the slot on equal energy
SelectionOnTie(st, i, x, e) ==
    IF e <= st.popEnergy[i]
    THEN [popEnergy |-> [st.popEnergy EXCEPT ![i] = e],
          population |-> [st.population EXCEPT ![i] = x],
          bestEnergy |-> IF e <= st.bestEnergy THEN e ELSE st.bestEnergy,
          bestSolution |-> IF e <= st.bestEnergy THEN x ELSE st.bestSolution,
          replaced |-> TRUE]
    ELSE [popEnergy |-> st.popEnergy, population |-> st.population,
          bestEnergy |-> st.bestEnergy, bestSolution |-> st.bestSolution,
          replaced |-> FALSE]

\* the selection step on solver fields st for slot i with trial x of energy e:
\* the fields after it, and whether the slot was replaced
Selection(st, i, x, e) ==
    IF e < st.popEnergy[i]
    THEN [popEnergy |-> [st.popEnergy EXCEPT ![i] = e],
          population |-> [st.population EXCEPT ![i] = x],
          bestEnergy |-> IF e < st.bestEnergy THEN e ELSE st.bestEnergy,
          bestSolution |-> IF e < st.bestEnergy THEN x ELSE st.bestSolution,
          replaced |-> TRUE]
    ELSE [popEnergy |-> st.popEnergy, population |-> st.population,
          bestEnergy |-> st.bestEnergy, bestSolution |-> st.bestSolution,
          replaced |-> FALSE]

\* UpdateGenealogyRecords(id, newchild)
UpdateGenealogyRecords(id, newchild) ==
    [genealogy EXCEPT ![id] = Append(@, newchild)]

\* if trialEnergy < self.popEnergy[candidate]: ... of the sequential solver
DE1Select ==
    /\ pc = "select"
    /\ ~invariant_current
    /\ LET s == Selection(Snapshot, candidate, trialSolution, trialEnergy) IN
         /\ popEnergy' = s.popEnergy
         /\ population' = s.population
         /\ bestEnergy' = s.bestEnergy
         /\ bestSolution' = s.bestSolution
         /\ genealogy' = IF s.replaced
                         THEN UpdateGenealogyRecords(candidate, trialSolution)
                         ELSE genealogy
         /\ accepted' = IF s.replaced
                        THEN accepted \cup {[slot |-> candidate,
                                             x |-> trialSolution,
                                             e |-> trialEnergy]}
                        ELSE accepted
    /\ processed' = processed + 1
    /\ IF candidate + 1 < nPop
       THEN candidate' = candidate + 1 /\ pc' = "strategy"
       ELSE candidate' = candidate /\ pc' = "endgen"
    /\ UNCHANGED <<trialSolution, energy_history, generations, maxiter, maxfun,
                   useStrictRange, strictMin, strictMax, EARLYEXIT,
                   fcalls, generation, trialPop, trialEnergy,
                   diffevVars, rng, started, ncost, ncallback, stopReason,
                   solves, genStart, seen, intGen, intPc>>

\* the strategy reading the trial generation in place of the current one
DE2StrategyViewTrial == [Snapshot EXCEPT !.population = trialPop]

\* the solver state that strategy(self, candidate) reads in the
\* invariant-generation solver: the instance as it is now
DE2StrategyView == Snapshot

\* strategy(self, candidate); trialPop[candidate][:] = self.trialSolution[:]
DE2Strategy ==
    /\ pc = "strategy"
    /\ invariant_current
    /\ rng' = NextRandom(rng)
    /\ LET dr == Draw(rng', candidate) IN
         trialSolution' =
              Best1Exp(DE2StrategyView.population, DE2StrategyView.bestSolution,
                       candidate, dr.r1, dr.r2, dr.n, dr.L)
    /\ trialPop' = [trialPop EXCEPT ![candidate] = trialSolution']
    /\ seen' = DE2StrategyView
    /\ IF candidate + 1 < nPop
       THEN candidate' = candidate + 1 /\ pc' = "strategy"
                                       /\ trialEnergy' = trialEnergy
       ELSE candidate' = 0 /\ pc' = "map" /\ trialEnergy' = << >>
    /\ UNCHANGED <<population, popEnergy, bestSolution, bestEnergy,
                   energy_history, genealogy, generations, maxiter, maxfun,
                   useStrictRange, strictMin, strictMax, EARLYEXIT,
                   fcalls, generation, diffevVars, started, ncost, ncallback,
                   stopReason, solves, genStart, accepted, processed, intGen, intPc>>

\* a map step that applies the replacement as soon as the trial is evaluated
DE2MapInPlace ==
    /\ pc = "map"
    /\ invariant_current
    /\ LET k == Len(trialEnergy)
           r == Costfunction(trialPop[k], fcalls)
           s == Selection(Snapshot, k, trialPop[k], r.value) IN
         /\ trialEnergy' = Append(trialEnergy, r.value)
         /\ fcalls' = fcalls + r.counted
         /\ ncost' = ncost + r.called
         /\ evalmon' = evalmon + r.recorded
         /\ population' = s.population
         /\ popEnergy' = s.popEnergy
    /\ IF Len(trialEnergy) + 1 < nPop
       THEN pc' = "map"
       ELSE pc' = "select"
    /\ UNCHANGED <<bestSolution, bestEnergy, trialSolution, energy_history,
                   genealogy, generations, maxiter, maxfun, useStrictRange,
                   strictMin, strictMax, EARLYEXIT, generation, candidate,
                   trialPop, invariant_current, ftol, stepmon, warnflag, rng,
                   started, ncallback, stopReason, solves,
                   genStart, seen, accepted, processed, intGen, intPc>>

\* trialEnergy = map(costfunction, trialPop): the builtin map calls costfunction
\* on trialPop[0], trialPop[1], ... in turn and collects the values in that order
DE2Map ==
    /\ pc = "map"
    /\ invariant_current
    /\ LET r == Costfunction(trialPop[Len(trialEnergy)], fcalls) IN
         /\ trialEnergy' = Append(trialEnergy, r.value)
         /\ fcalls' = fcalls + r.counted
         /\ ncost' = ncost + r.called
         /\ evalmon' = evalmon + r.recorded
    /\ IF Len(trialEnergy) + 1 < nPop
       THEN pc' = "map"
       ELSE pc' = "select"
    /\ UNCHANGED <<solverVars, generation, candidate, trialPop,
                   invariant_current, ftol, stepmon, warnflag, rng,
                   started, ncallback, stopReason, solves,
                   genStart, seen, accepted, processed, intGen, intPc>>

\* the second candidate loop of DifferentialEvolutionSolver2.Solve; the genealogy
\* gets self.trialSolution, the last trial the strategy built
DE2Select ==
    /\ pc = "select"
    /\ invariant_current
    /\ LET s == Selection(Snapshot, candidate, trialPop[candidate],
                          trialEnergy[candidate + 1]) IN
         /\ popEnergy' = s.popEnergy
         /\ population' = s.population
         /\ bestEnergy' = s.bestEnergy
         /\ bestSolution' = s.bestSolution
         /\ genealogy' = IF s.replaced
                         THEN UpdateGenealogyRecords(candidate, trialSolution)
                         ELSE genealogy
         /\ accepted' = IF s.replaced
                        THEN accepted \cup {[slot |-> candidate,
                                             x |-> trialPop[candidate],
                                             e |-> trialEnergy[candidate + 1]]}
                        ELSE accepted
    /\ processed' = processed + 1
    /\ IF candidate + 1 < nPop
       THEN candidate' = candidate + 1 /\ pc' = "select"
       ELSE candidate' = candidate /\ pc' = "endgen"
    /\ UNCHANGED <<trialSolution, energy_history, generations, maxiter, maxfun,
                   useStrictRange, strictMin, strictMax, EARLYEXIT,
                   fcalls, generation, trialPop, trialEnergy,
                   diffevVars, rng, started, ncost, ncallback, stopReason,
                   solves, genStart, seen, intGen, intPc>>

\* the termination predicate handed to Solve by diffev: VTR(ftol)
termination == VTR(ftol, bestEnergy)

\* the loop test without the early-exit flag
LoopExitWithoutFlag == IF termination THEN "predicate" ELSE "none"

\* if self._EARLYEXIT or termination(self): break -- what ends the loop, if
\* anything ("or" does not call the predicate when the flag is set)
LoopExit ==
    IF EARLYEXIT THEN "earlyexit"
    ELSE IF termination THEN "predicate"
    ELSE "none"

\* an end of iteration that appends the best energy the iteration started with
EndGenBestAtStart ==
    /\ pc = "endgen"
    /\ energy_history' = Append(energy_history, genStart.bestEnergy)
    /\ ncallback' = ncallback + 1
    /\ IF LoopExit = "none"
       THEN pc' = "loop" /\ stopReason' = stopReason
       ELSE pc' = "exit" /\ stopReason' = LoopExit
    /\ UNCHANGED <<population, popEnergy, bestSolution, bestEnergy, trialSolution,
                   genealogy, generations, maxiter, maxfun, useStrictRange,
                   strictMin, strictMax, EARLYEXIT, fcalls, generation, candidate,
                   trialPop, trialEnergy, diffevVars, rng, started, ncost,
                   solves, genStart, seen, accepted, processed, intGen, intPc>>

\* end of an iteration: energy_history.append(bestEnergy); callback(bestSolution);
\* if self._EARLYEXIT or termination(self): break
EndGen ==
    /\ pc = "endgen"
    /\ energy_history' = Append(energy_history, bestEnergy)
    /\ ncallback' = ncallback + 1
    /\ IF LoopExit = "none"
       THEN pc' = "loop" /\ stopReason' = stopReason
       ELSE pc' = "exit" /\ stopReason' = LoopExit
    /\ UNCHANGED <<population, popEnergy, bestSolution, bestEnergy, trialSolution,
                   genealogy, generations, maxiter, maxfun, useStrictRange,
                   strictMin, strictMax, EARLYEXIT, fcalls, generation, candidate,
                   trialPop, trialEnergy, diffevVars, rng, started, ncost,
                   solves, genStart, seen, accepted, processed, intGen, intPc>>

\* a return that stores the number of generations started
SolveReturnCount ==
    /\ pc = "exit"
    /\ generations' = started
    /\ pc' = "returned"
    /\ UNCHANGED <<population, popEnergy, bestSolution, bestEnergy, trialSolution,
                   energy_history, genealogy, maxiter, maxfun, useStrictRange,
                   strictMin, strictMax, EARLYEXIT, fcalls, generation, candidate,
                   trialPop, trialEnergy, diffevVars, rng, ghostVars>>

\* after the loop: self.generations = generation; Solve returns (its own
\* fval and warnflag are locals that are only printed, and are left out)
SolveReturn ==
    /\ pc = "exit"
    /\ generations' = generation
    /\ pc' = "returned"
    /\ UNCHANGED <<population, popEnergy, bestSolution, bestEnergy, trialSolution,
                   energy_history, genealogy, maxiter, maxfun, useStrictRange,
                   strictMin, strictMax, EARLYEXIT, fcalls, generation, candidate,
                   trialPop, trialEnergy, diffevVars, rng, ghostVars>>

\* diffev after solver.Solve: fcalls = len(evalmon.x), iterations = len(stepmon.x)
DiffevWarnflag ==
    IF evalmon >= maxfun THEN 1
    ELSE IF stepmon >= maxiter THEN 2
    ELSE 0

DiffevReturn ==
    /\ pc = "returned"
    /\ warnflag' = DiffevWarnflag
    /\ pc' = "done"
    /\ UNCHANGED <<solverVars, fcalls, generation, candidate, trialPop,
                   trialEnergy, invariant_current, ftol, evalmon, stepmon,
                   rng, ghostVars>>

\* the handler installed by enable_signal_handler: sets the early-exit flag
Interrupt ==
    /\ pc \in {"loop", "limit", "strategy", "cost", "map", "select", "endgen"}
    /\ ~EARLYEXIT
    /\ EARLYEXIT' = TRUE
    /\ intGen' = IF pc = "loop" THEN None ELSE generation
    /\ intPc' = pc
    /\ UNCHANGED <<population, popEnergy, bestSolution, bestEnergy, trialSolution,
                   energy_history, genealogy, generations, maxiter, maxfun,
                   useStrictRange, strictMin, strictMax, localVars, diffevVars,
                   rng, started, ncost, ncallback, stopReason, solves,
                   genStart, seen, accepted, processed>>

\* the caller sets or drops the strict ranges and calls Solve again on the
\* same instance, with the same monitors
SolveAgain ==
    /\ pc = "returned"
    /\ solves < MaxSolves
    /\ useStrictRange' \in BOOLEAN
    /\ pc' = "ready"
    /\ UNCHANGED <<population, popEnergy, bestSolution, bestEnergy, trialSolution,
                   energy_history, genealogy, generations, maxiter, maxfun,
                   strictMin, strictMax, EARLYEXIT, fcalls, generation, candidate,
                   trialPop, trialEnergy, diffevVars, rng, ghostVars>>

\* one run of diffev
Next ==
    \/ SolveStart /\ UNCHANGED <<shadow, collapseVars>>
    \/ LoopHead /\ UNCHANGED <<shadow, collapseVars>>
    \/ LimitCheck /\ UNCHANGED <<shadow, collapseVars>>
    \/ DE1Strategy /\ UNCHANGED <<shadow, collapseVars>>
    \/ DE1Cost /\ UNCHANGED <<shadow, collapseVars>>
    \/ DE1Select /\ UNCHANGED <<shadow, collapseVars>>
    \/ DE2Strategy /\ UNCHANGED <<shadow, collapseVars>>
    \/ DE2Map /\ UNCHANGED <<shadow, collapseVars>>
    \/ DE2Select /\ UNCHANGED <<shadow, collapseVars>>
    \/ EndGen /\ UNCHANGED <<shadow, collapseVars>>
    \/ SolveReturn /\ UNCHANGED <<shadow, collapseVars>>
    \/ DiffevReturn /\ UNCHANGED <<shadow, collapseVars>>

Spec == Init /\ [][Next]_vars

\* the user's cost function raises when costfunction calls it (line 214, or
\* inside the map of line 358): the call was counted, nothing is recorded in
\* the evaluation monitor, and no handler in Solve or diffev catches the
\* exception, so both are left at once
CostRaises ==
    /\ pc \in {"cost", "map"}
    /\ LET x == IF invariant_current THEN trialPop[Len(trialEnergy)]
                ELSE trialSolution
           r == Costfunction(x, fcalls) IN
         /\ r.called = 1
         /\ fcalls' = fcalls + r.counted
         /\ ncost' = ncost + r.called
    /\ pc' = "raised"
    /\ stopReason' = "exception"
    /\ UNCHANGED <<solverVars, generation, candidate, trialPop, trialEnergy,
                   diffevVars, rng, started, ncallback, solves,
                   genStart, seen, accepted, processed, intGen, intPc>>

\* one run of diffev in which the cost function may raise
NextFail ==
    \/ Next
    \/ CostRaises /\ UNCHANGED <<shadow, collapseVars>>

SpecFail == Init /\ [][NextFail]_vars

\* a tolerance below every value of the cost: VTR(NeverFires) never fires
NeverFires == 0 - 1

\* diffev with maxiter left unset (None) or given, and with a predicate that
\* can fire or never fires
InitLive ==
    /\ Configured(BOOLEAN, BOOLEAN, {None, MaxIter}, {NeverFires, 0})
    /\ rng \in {0, MaxSeed}

\* one run of diffev in which every step of Solve is eventually taken: Solve is
\* sequential code, and the cost function, the termination predicate and the
\* callback return whenever they are called
SpecLive == InitLive /\ [][Next]_vars /\ WF_vars(Next)

\* one run of diffev with the signal handler enabled and interrupts arriving
NextSig ==
    \/ Next
    \/ Interrupt /\ UNCHANGED <<shadow, collapseVars>>

SpecSig == Init /\ [][NextSig]_vars

\* Solve called up to MaxSolves times on one solver instance
NextReuse ==
    \/ Next
    \/ SolveAgain /\ UNCHANGED <<shadow, collapseVars>>

SpecReuse == Init /\ [][NextReuse]_vars

\* Solve called up to MaxSolves times on one solver instance, with the signal
\* handler enabled and interrupts arriving
NextReuseSig ==
    \/ NextReuse
    \/ Interrupt /\ UNCHANGED <<shadow, collapseVars>>

\* the runs of Init started from the first and the last seed
InitReuseSig == Init /\ rng \in {0, MaxSeed}

SpecReuseSig == InitReuseSig /\ [][NextReuseSig]_vars

\* ------------------------------------------------------------ second run
\* A second run of the same solver class from the same initial state, with the
\* same strategy, the same random numbers and the same cost; in the
\* invariant-generation solver its trial costs are evaluated by a mapper that
\* takes the trials in any order and returns the values in the order of the
\* trials.

ShadowStart ==
    shadow' = [shadow EXCEPT
        !.population =
            IF useStrictRange
            THEN [i \in Slots |->
                    ClipGuessWithinRangeBoundary(shadow.population[i],
                                                 strictMin, strictMax)]
            ELSE shadow.population,
        !.bestEnergy = Sentinel,
        !.trialPop = [i \in Slots |-> Zero],
        !.fcalls = 0]

ShadowStrategy ==
    LET dr == Draw(rng', candidate)
        t == Best1Exp(shadow.population, shadow.bestSolution,
                      candidate, dr.r1, dr.r2, dr.n, dr.L)
    IN  shadow' = [shadow EXCEPT
            !.trialSolution = t,
            !.trialPop = [@ EXCEPT ![candidate] = t],
            !.pending = IF invariant_current /\ candidate + 1 = nPop
                        THEN Slots ELSE @,
            !.order = << >>]

ShadowCost ==
    LET r == Costfunction(shadow.trialSolution, shadow.fcalls) IN
        shadow' = [shadow EXCEPT !.trialEnergy = r.value,
                                 !.fcalls = @ + r.counted]

\* an order-preserving mapper: any pending trial is evaluated next, and its
\* value is stored at the position of the trial
ShadowMap ==
    \E k \in shadow.pending :
        LET r == Costfunction(shadow.trialPop[k], shadow.fcalls) IN
            shadow' = [shadow EXCEPT !.results = [@ EXCEPT ![k] = r.value],
                                     !.pending = @ \ {k},
                                     !.order = Append(@, k),
                                     !.fcalls = @ + r.counted]

ShadowSelected(x, e) ==
    LET s == Selection(shadow, candidate, x, e) IN
        shadow' = [shadow EXCEPT !.popEnergy = s.popEnergy,
                                 !.population = s.population,
                                 !.bestEnergy = s.bestEnergy,
                                 !.bestSolution = s.bestSolution]

ShadowEndGen ==
    shadow' = [shadow EXCEPT
                  !.energy_history = Append(@, shadow.bestEnergy)]

NextPair ==
    \/ SolveStart /\ ShadowStart
         /\ UNCHANGED collapseVars
    \/ LoopHead /\ UNCHANGED <<shadow, collapseVars>>
    \/ LimitCheck /\ UNCHANGED <<shadow, collapseVars>>
    \/ DE1Strategy /\ ShadowStrategy
         /\ UNCHANGED collapseVars
    \/ DE1Cost /\ ShadowCost
         /\ UNCHANGED collapseVars
    \/ DE1Select /\ ShadowSelected(shadow.trialSolution, shadow.trialEnergy)
         /\ UNCHANGED collapseVars
    \/ DE2Strategy /\ ShadowStrategy
         /\ UNCHANGED collapseVars
    \/ DE2Map /\ ShadowMap
         /\ UNCHANGED collapseVars
    \/ DE2Select /\ ShadowSelected(shadow.trialPop[candidate],
                                   shadow.results[candidate])
         /\ UNCHANGED collapseVars
    \/ EndGen /\ ShadowEndGen
         /\ UNCHANGED collapseVars
    \/ SolveReturn /\ UNCHANGED <<shadow, collapseVars>>

SpecPair == Init /\ [][NextPair]_vars

\* ------------------------------------------------------ collapse detection
\* The solver hands a parameter vector to the step monitor once per generation;
\* a termination condition calls the collapse detectors on the monitor.

\* the parameter vectors the solver hands to the step monitor
Samples == {Sample(k) : k \in {0, 1, 2}}

\* the arguments the detectors are called with
Targets ==
    {NoTarget, Target([j \in Params |-> 0]), Target([j \in Params |-> j % 2])}

Tolerances == {<<0>>, <<1>>}

\* a tolerance for each index: 0 for the even indices, 1 for the odd ones
PerIndex == [k \in 1 .. (nMeasures * 2 * nPts) |-> (k - 1) % 2]

\* collapse_at takes a scalar tolerance or one tolerance per index
AtTolerances == Tolerances \cup {PerIndex}

Windows == 1 .. MaxGen

\* Detector d is called either as the first call since the monitor was
\* written, with arguments and mask of its families, or right after a call
\* of d that returned, on the same target, offset and window and with the
\* value returned by that call fed back as the mask.
First == call.detector = "none"

Again(d) == call.detector = d /\ ~call.fed /\ result.raised = "none"

Arg(family, previous) == IF First THEN family ELSE {previous}

\* masks for collapse_at: None, sets of indices, and masks that are not valid
AtMasks ==
    {PyNone, PySet({}), PySet({Scalar("int", 0)}),
     PySet({Scalar("int", 1), Scalar("int", 3)}),
     PySet({Scalar("int", 0), Tuple(2, "int", 0, "int", 1)}),
     PyDict({}), EmptyTuple, PyInt}

\* StepMonitor(x, cost): one more generation is recorded
Record ==
    /\ Len(monitor) < MaxGen
    /\ \E x \in Samples : monitor' = Append(monitor, x)
    /\ call' = NoCall
    /\ result' = NoResult
    /\ message' = NoMessage
    /\ collapses' = NoCollapses
    /\ UNCHANGED <<solveVars, shadow>>

\* the call made and its arguments
Called(d, target, offset, tolerance, last, mask) ==
    [detector |-> d, fed |-> ~First, target |-> target,
     offset |-> offset, tolerance |-> tolerance, generations |-> last,
     mask |-> mask]

CollapseAt ==
    /\ First \/ Again("collapse_at")
    /\ \E target \in Arg(Targets, call.target), tolerance \in AtTolerances,
          last \in Arg(Windows, call.generations),
          mask \in Arg(AtMasks, result.value) :
         /\ call' = Called("collapse_at", target, FALSE, tolerance,
                           last, mask)
         /\ result' = collapse_at(monitor, target, tolerance, last, mask)
    /\ UNCHANGED <<monitor, codecVars, solveVars, shadow>>

\* masks for collapse_as: None, sets of indices and of pairs in either order,
\* and masks that are not valid (a pair of three, the number 1/2, a string of
\* two characters, the pair (0, 3/2), a dict, a tuple)
AsMasks ==
    {PyNone, PySet({}), PySet({Scalar("int", 0)}),
     PySet({Tuple(2, "int", 1, "int", 2), Tuple(2, "int", 3, "int", 0)}),
     PySet({Scalar("int", 1), Tuple(2, "int", 0, "int", 3)}),
     PySet({Tuple(3, "int", 0, "int", 1)}),
     PySet({Scalar("float", 0)}), PySet({PyStr(2)}),
     PySet({Tuple(2, "int", 0, "float", 1)}),
     PyDict({}), EmptyTuple}

CollapseAs ==
    /\ First \/ Again("collapse_as")
    /\ \E offset \in Arg(BOOLEAN, call.offset), tolerance \in Tolerances,
          last \in Arg(Windows, call.generations),
          mask \in Arg(AsMasks, result.value) :
         /\ call' = Called("collapse_as", NoTarget, offset, tolerance,
                           last, mask)
         /\ result' = collapse_as(monitor, offset, tolerance, last, mask)
    /\ UNCHANGED <<monitor, codecVars, solveVars, shadow>>

\* masks for collapse_weight: None, a dict {measure: indices}, a set of tuples
\* (measure, index), a tuple (measures, indices) in 'where' notation, and
\* masks that are not valid (the empty string among them)
WeightMasks ==
    {PyNone,
     PyDict({}),
     PyDict({DictEntry(Scalar("int", 0), TRUE, {Scalar("int", 0)})}),
     PySet({}),
     PySet({Tuple(2, "int", 0, "int", 0), Tuple(2, "int", 1, "int", 1)}),
     EmptyTuple,
     Where(<<Scalar("int", 0)>>, <<Scalar("int", 0)>>),
     PySet({Scalar("int", 0)}),
     PyDict({DictEntry(Scalar("int", 0), FALSE, {})}),
     Where(<<Scalar("int", 0)>>, << >>),
     PyString(0),
     PyInt}

CollapseWeight ==
    /\ First \/ Again("collapse_weight")
    /\ \E tolerance \in Tolerances, last \in Arg(Windows, call.generations),
          mask \in Arg(WeightMasks, result.value) :
         /\ call' = Called("collapse_weight", NoTarget, FALSE, tolerance,
                           last, mask)
         /\ result' = collapse_weight(monitor, tolerance, last, mask)
    /\ UNCHANGED <<monitor, codecVars, solveVars, shadow>>

\* masks for collapse_position: None, a dict {measure: pairs}, a set of tuples
\* (measure, pair), a tuple (measures, pairs) in 'where' notation, and masks
\* that are not valid (the empty string among them)
PositionMasks ==
    {PyNone,
     PyDict({}),
     PyDict({DictEntry(Scalar("int", 0), TRUE, {Tuple(2, "int", 1, "int", 0)})}),
     PySet({}),
     PySet({Nested("int", 1, 1, 0)}),
     EmptyTuple,
     Where(<<Scalar("int", 0)>>, <<Tuple(2, "int", 1, "int", 0)>>),
     PySet({Tuple(2, "int", 0, "int", 1)}),
     PyDict({DictEntry(Scalar("int", 0), TRUE, {Scalar("int", 0)})}),
     Where(<<Scalar("int", 0)>>, <<Scalar("int", 0)>>),
     PyString(0),
     PyInt}

CollapsePosition ==
    /\ First \/ Again("collapse_position")
    /\ \E tolerance \in Tolerances, last \in Arg(Windows, call.generations),
          mask \in Arg(PositionMasks, result.value) :
         /\ call' = Called("collapse_position", NoTarget, FALSE, tolerance,
                           last, mask)
         /\ result' = collapse_position(monitor, tolerance, last, mask)
    /\ UNCHANGED <<monitor, codecVars, solveVars, shadow>>

\* the names of the clauses of a stop reason: "C", "D", "C at D", "C; D",
\* "C;" and the empty name
Names ==
    {Str(<<"C">>), Str(<<"D">>), Str(<<"C", " ", "a", "t", " ", "D">>),
     Str(<<"C", ";", " ", "D">>), Str(<<"C", ";">>), << >>}

\* what the detector-backed termination conditions find on the monitor
Found ==
    {r.value : r \in
        {r \in {collapse_at(monitor, NoTarget, <<1>>, MaxGen, PyNone),
                collapse_as(monitor, FALSE, <<1>>, MaxGen, PyNone)}
               \cup {collapse_weight(monitor, <<1>>, MaxGen, m) :
                        m \in {PyDict({}), PySet({}), EmptyTuple}}
               \cup {collapse_position(monitor, <<1>>, MaxGen, m) :
                        m \in {PyDict({}), PySet({}), EmptyTuple}} :
            r.raised = "none"}}

\* a clause "name at payload" of a detector-backed condition
Clause(name, value) == [name |-> name, form |-> TRUE, value |-> value]

\* the clause of a condition that is not backed by a detector
Plain(text) == [name |-> text, form |-> FALSE, value |-> PyNone]

\* encode(name, result): "name at repr(result)"
Encode(c) ==
    IF c.form THEN c.name \o Str(<<" ", "a", "t", " ">>) \o Repr(c.value)
    ELSE c.name

\* the clauses joined with "; "
RECURSIVE Joined(_)
Joined(clauses) ==
    IF Len(clauses) = 1 THEN Encode(clauses[1])
    ELSE Joined(SubSeq(clauses, 1, Len(clauses) - 1))
             \o Str(<<";", " ">>) \o Encode(clauses[Len(clauses)])

\* A termination condition stops the solver on the monitor, writes its stop
\* reason, and collapsed is applied to the reason.
Collapsed ==
    /\ First
    /\ \E name \in Names, value \in Found :
         \E clauses \in
                {<<Clause(name, value)>>,
                 <<Clause(name, value), Plain(Str(<<"D">>))>>}
                \cup {<<Clause(name, value), Clause(second, other)>> :
                         second \in {name, Str(<<"D">>)}, other \in Found} :
             /\ message' = [text |-> Joined(clauses), clauses |-> clauses]
             /\ collapses' = collapsed(Joined(clauses))
    /\ call' = [NoCall EXCEPT !.detector = "collapsed"]
    /\ UNCHANGED <<monitor, result, solveVars, shadow>>

NextCollapse ==
    \/ Record
    \/ CollapseAt
    \/ CollapseAs
    \/ CollapseWeight
    \/ CollapsePosition
    \/ Collapsed

\* a solver constructed and not run, and an empty step monitor
InitCollapse ==
    /\ Constructed({TRUE}, {FALSE})
    /\ population = InitialPoints(0)
    /\ maxiter = 1
    /\ maxfun = None
    /\ ftol = 0
    /\ rng = 0

SpecCollapse == InitCollapse /\ [][NextCollapse]_vars

\* ----------------------------------------------------------------- claims

\* the smallest entry of popEnergy
MinEnergy == CHOOSE e \in {popEnergy[i] : i \in Slots} :
                 \A i \in Slots : e <= popEnergy[i]

\* C1: monotone best -- over everything the solver instance has ever run, a
\* later entry of energy_history is never larger than an earlier one
C1_MonotoneBest ==
    \A k \in 1 .. Len(energy_history) : \A m \in 1 .. Len(energy_history) :
        k < m => energy_history[m] <= energy_history[k]

\* a point at which the solver can be observed after an evaluation of the
\* current Solve: the end of a candidate step of the sequential solver, or the
\* end of a generation of either solver
AfterEvaluation ==
    \/ ~invariant_current /\ pc \in {"strategy", "endgen"} /\ processed > 0
    \/ pc \in {"loop", "exit", "returned"} /\ processed > 0

\* C2: at every observation point after an evaluation the best energy is at
\* most the smallest energy of the population
C2_BestBelowEnergies == AfterEvaluation => bestEnergy <= MinEnergy

\* the state right after a completed generation
GenerationCompleted ==
    /\ processed = nPop
    /\ \/ pc = "loop"
       \/ pc = "exit" /\ stopReason \in {"predicate", "earlyexit"}

\* C3: alignment -- after each completed generation every slot's energy is
\* the cost of the slot's vector, replaced in that generation or not
C3_Alignment ==
    GenerationCompleted => \A i \in Slots : popEnergy[i] = Cost(population[i])

\* Solve has clipped the initial population
Clipped == pc \notin {"ready"} /\ solves > 0

\* C4: bounds -- with strict ranges set, after Solve has clipped the initial
\* population every population member and the best vector lie in the range,
\* and no accepted trial has a component outside it
C4_Bounds ==
    (useStrictRange /\ Clipped) =>
        /\ \A i \in Slots : InRange(population[i], strictMin, strictMax)
        /\ InRange(bestSolution, strictMin, strictMax)
        /\ \A a \in accepted : InRange(a.x, strictMin, strictMax)

\* C5: counter correctness -- fcalls is the number of times the user cost
\* function has been entered, with and without strict ranges, and the number
\* of evaluation-monitor records that diffev reports is the same number
C5_CounterCorrect ==
    /\ fcalls = ncost
    /\ pc = "done" => evalmon = ncost

\* a diffev run with strict ranges has ended, some trials were evaluated and
\* some trials of its completed generations were turned away by the bounds
C5_Witness ==
    /\ pc = "done"
    /\ useStrictRange
    /\ fcalls > 0
    /\ stopReason # "maxfun"
    /\ fcalls < nPop * Len(energy_history)

\* the trial of the sequential solver's current candidate has just been built
DE1TrialBuilt == ~invariant_current /\ pc \in {"cost", "select"}

\* C6: sequential solver visibility -- the trial of candidate j is built from a
\* population, energies and best-so-far that hold the replacement of every
\* candidate i < j accepted earlier in the same generation
C6_LaterSeesEarlier ==
    DE1TrialBuilt =>
        /\ trialSolution =
             Best1Exp(seen.population, seen.bestSolution, candidate,
                      Draw(rng, candidate).r1, Draw(rng, candidate).r2,
                      Draw(rng, candidate).n, Draw(rng, candidate).L)
        /\ \A a \in accepted :
             /\ a.slot < candidate
             /\ seen.population[a.slot] = a.x
             /\ seen.popEnergy[a.slot] = a.e
             /\ seen.bestEnergy <= a.e

\* a later trial of the sequential solver takes its difference vector from a
\* slot that was replaced, by a different vector, earlier in the generation
C6_Witness ==
    /\ DE1TrialBuilt
    /\ \E a \in accepted :
         /\ a.x # genStart.population[a.slot]
         /\ Draw(rng, candidate).r1 = a.slot
         /\ seen.bestSolution = a.x

\* the invariant-generation solver is building or evaluating its trials
DE2Frozen ==
    /\ invariant_current
    /\ \/ pc \in {"strategy", "map"}
       \/ pc = "select" /\ candidate = 0 /\ processed = 0

\* C7: invariant-generation solver freezing -- from the start of a generation
\* until all trials are built and evaluated, population, energies, best vector
\* and best energy are those of the start of the generation, no replacement has
\* been applied and every trial was built from that frozen state
C7_GenerationFrozen ==
    DE2Frozen =>
        /\ Snapshot = genStart
        /\ accepted = {}
        /\ (pc = "strategy" /\ candidate = 0) \/ seen = genStart

\* in a later generation of the invariant-generation solver a trial has been
\* evaluated that will replace its slot, and the slot still holds the old vector
C7_Witness ==
    /\ invariant_current
    /\ pc = "map"
    /\ generation >= 1
    /\ Len(trialEnergy) >= 1
    /\ trialEnergy[1] < popEnergy[0]
    /\ trialPop[0] # population[0]

InterruptedInGeneration ==
    /\ intGen # None
    /\ intPc \in {"limit", "strategy", "cost", "map", "select"}

\* the generation the interrupt fell in was carried through and was the last
CarriedThrough ==
    /\ generation = intGen
    /\ processed = nPop
    /\ Len(energy_history) = intGen + 1
    /\ ncallback = intGen + 1
    /\ started = intGen + 1
    /\ \A a \in accepted : population[a.slot] = a.x /\ popEnergy[a.slot] = a.e

\* C9 as stated: an interrupt inside generation g never aborts it -- all nPop
\* candidates are processed, the best energy is appended, the callback runs, and
\* only then Solve stops, without starting generation g+1
C9_CancellationAsStated ==
    (InterruptedInGeneration /\ pc \in {"returned", "done"}) => CarriedThrough

\* C9, amended: the same, for a generation that passed the evaluation-limit
\* check made at its start
C9_Cancellation ==
    (InterruptedInGeneration /\ pc \in {"returned", "done"}
        /\ stopReason # "maxfun") => CarriedThrough /\ stopReason = "earlyexit"

\* Solve has returned after an interrupt that arrived during a cost evaluation
\* of a generation which neither the predicate nor the limits would have ended
C9_Witness ==
    /\ pc = "returned"
    /\ intPc = "cost"
    /\ stopReason = "earlyexit"
    /\ accepted # {}
    /\ ~termination
    /\ started < maxiter
    /\ fcalls < maxfun

\* C10: diffev reports warnflag 0 whenever the run ended because the
\* termination predicate returned a stop reason
C10_WarnflagZeroOnPredicate ==
    (pc = "done" /\ stopReason = "predicate") => warnflag = 0

\* C11: with full_output, diffev returns warnflag 1 exactly when the run ended
\* because the number of cost evaluations reached max_fun, and warnflag 2
\* exactly when it ended because max_iter iterations were performed
C11_WarnflagLimits ==
    pc = "done" =>
        /\ warnflag = 1 <=> stopReason = "maxfun"
        /\ warnflag = 2 <=> stopReason = "maxiter"

\* C12: on return from Solve and from diffev the reported optimum value is the
\* cost of the reported optimum vector, also when no trial was ever accepted
C12_BestPair ==
    pc \in {"returned", "done"} => bestEnergy = Cost(bestSolution)

\* a detector was called on the monitor and returned a value
DetectorReturned ==
    /\ call.detector \in {"collapse_at", "collapse_as", "collapse_weight",
                          "collapse_position"}
    /\ result.raised = "none"

\* the elements of a mask or of a result, whatever its format: the members of
\* a set, the tuples (measure, item) of a dict and of a 'where' tuple
Elements(value) ==
    IF value.kind = "set" THEN value.elems
    ELSE IF value.kind = "dict"
    THEN Items(value)
    ELSE IF value.kind = "tuple" THEN Zipped(value)
    ELSE {}

\* the detectors whose results are pairs of indices
PairDetectors == {"collapse_as", "collapse_position"}

TypeAsked(mask) ==
    IF mask.kind \in {"None", "dict"} THEN "dict"
    ELSE IF mask.kind = "set" THEN "set"
    ELSE "tuple"

\* the container type of the result is the one the mask asks for
TypeKept ==
    (call.detector \in {"collapse_weight", "collapse_position"}
        /\ result.raised = "none") =>
            result.value.kind = TypeAsked(call.mask)

\* C14: for collapse_weight and collapse_position the container type of the
\* mask determines the container type of the result, empty or not, and a
\* result in any of the formats, fed back unchanged as the mask of the next
\* call, is accepted without an error and gives a result of the same type
C14_MaskDeterminesType ==
    /\ TypeKept
    /\ (call.detector \in {"collapse_weight", "collapse_position"} /\ call.fed)
           => result.raised = "none" /\ result.value.kind = call.mask.kind

\* the detector of call c applied to the monitor with the arguments of c, at
\* the tolerance given
Detect(c, tolerance) ==
    IF c.detector = "collapse_at"
    THEN collapse_at(monitor, c.target, tolerance, c.generations, c.mask)
    ELSE IF c.detector = "collapse_as"
    THEN collapse_as(monitor, c.offset, tolerance, c.generations, c.mask)
    ELSE IF c.detector = "collapse_weight"
    THEN collapse_weight(monitor, tolerance, c.generations, c.mask)
    ELSE collapse_position(monitor, tolerance, c.generations, c.mask)

\* C15: detector monotonicity under tolerance -- with the history, the window
\* and the mask of the call, the result at every smaller scalar tolerance is a
\* subset of the result of the call (for dict results: measure by measure)
C15_ToleranceMonotone ==
    DetectorReturned =>
        \A t \in Tolerances :
            t[1] <= call.tolerance[1] =>
                /\ Detect(call, t).raised = "none"
                /\ \A e \in Elements(Detect(call, t).value) :
                       PyIn(e, Elements(result.value))

\* a detector called at the larger tolerance returned more than it returns at
\* the smaller one, where it returns something too
C15_Witness ==
    /\ DetectorReturned
    /\ call.detector = "collapse_at"
    /\ call.tolerance = <<1>>
    /\ Elements(Detect(call, <<0>>).value) # {}
    /\ Elements(Detect(call, <<0>>).value) # Elements(result.value)

\* the clauses of the stop reason that have the form "name at payload"
Formed == {k \in 1 .. Len(message.clauses) : message.clauses[k].form}

\* entry e of the returned dict is name: result of clause k (compared like
\* Python compares, a numpy integer being equal to the int of its value)
EntryOf(e, k) ==
    /\ e.name = message.clauses[k].name
    /\ e.value = Printed(message.clauses[k].value)

\* C16: collapsed applied to "name at repr(result)" returns {name: result}
\* for every name and result shape, and for several clauses joined by "; " it
\* returns one entry per clause of the form "name at payload".
C16_Roundtrip ==
    call.detector = "collapsed" =>
        /\ collapses.raised = "none"
        /\ ~collapses.none
        /\ Cardinality(collapses.entries) = Cardinality(Formed)
        /\ \A k \in Formed : \E e \in collapses.entries : EntryOf(e, k)

\* the name holds no "; ", also not when " at " follows it
Separable(name) ==
    Occurrences(name \o Str(<<" ">>), Str(<<";", " ">>)) = {}

\* C16 (amended): for every name in which no ";" is followed by a blank or
\* ends the name, and every result shape, collapsed applied to clauses
\* "name at repr(result)" joined by "; " returns one entry per distinct name
\* of a clause of that form, with the result of the last clause of that name.
C16_RoundtripSeparable ==
    (/\ call.detector = "collapsed"
     /\ \A k \in 1 .. Len(message.clauses) :
            Separable(message.clauses[k].name))
        => /\ collapses.raised = "none"
           /\ ~collapses.none
           /\ {e.name : e \in collapses.entries}
                  = {message.clauses[k].name : k \in Formed}
           /\ \A e \in collapses.entries :
                  EntryOf(e, Max({k \in Formed :
                                     message.clauses[k].name = e.name}))

\* a reason of two clauses of the same name " at " occurs in, with different
\* results, has been decoded
C16_Witness ==
    /\ call.detector = "collapsed"
    /\ Len(message.clauses) = 2
    /\ Formed = {1, 2}
    /\ message.clauses[1].name = Str(<<"C", " ", "a", "t", " ", "D">>)
    /\ message.clauses[2].name = message.clauses[1].name
    /\ Printed(message.clauses[1].value) # Printed(message.clauses[2].value)
    /\ message.clauses[2].value.kind = "tuple"
    /\ Cardinality(collapses.entries) = 1

\* the recorded generations a call looks at: the last N of the monitor
Window == {g \in 1 .. Len(monitor) : g > Len(monitor) - call.generations}

\* index i is named by the mask of the call
Masked(i) ==
    \E m \in call.mask.elems : m.ty \in {"int", "npint"} /\ m.n = i

\* parameter i stayed within the scalar tolerance of the call over the window
AtCollapse(i) ==
    IF call.target.given
    THEN \A g \in Window :
             /\ monitor[g][i] - call.target.v[i] <= call.tolerance[1]
             /\ call.target.v[i] - monitor[g][i] <= call.tolerance[1]
    ELSE \A g, h \in Window :
             monitor[g][i] - monitor[h][i] <= call.tolerance[1]

\* C17: collapse_at with a scalar tolerance returns exactly the set of the
\* indices i not in the mask with max(x[.,i]) - min(x[.,i]) <= tolerance over
\* the last N recorded generations when target is None, and with
\* max |x[.,i] - target_i| <= tolerance over them when a target is given.
C17_CollapseAtExact ==
    (/\ call.detector = "collapse_at"
     /\ result.raised = "none"
     /\ Len(call.tolerance) = 1)
        => /\ result.value.kind = "set"
           /\ \A e \in result.value.elems : e.ty \in {"int", "npint"}
           /\ {e.n : e \in result.value.elems}
                  = {i \in Params : ~Masked(i) /\ AtCollapse(i)}

\* collapse_at returned for a target and a window that is a part of the
\* history with two different vectors in it; some index collapsed and is
\* returned, another collapsed and is masked, a third did not collapse
C17_Witness ==
    /\ call.detector = "collapse_at"
    /\ result.raised = "none"
    /\ call.target.given
    /\ Len(monitor) = 3
    /\ call.generations = 2
    /\ monitor[2] # monitor[3]
    /\ result.value.elems # {}
    /\ \E i \in Params : Masked(i) /\ AtCollapse(i)
    /\ \E i \in Params : ~AtCollapse(i)
    /\ \E i \in Params : AtCollapse(i) /\ ~ (\A g \in 1 .. 3 :
           /\ monitor[g][i] - call.target.v[i] <= call.tolerance[1]
           /\ call.target.v[i] - monitor[g][i] <= call.tolerance[1])

\* the pair of indices i < j is selected by the mask of the call: by a bare
\* index that is i or j, or by the pair in either order
MaskedPair(i, j) ==
    \E m \in call.mask.elems :
        \/ m.ty \in {"int", "npint"} /\ m.n \in {i, j}
        \/ m.ty = "tuple" /\ m.n = 2 /\ {m.e1, m.e2} = {i, j}

\* the difference x_i - x_j in recorded generation g
Difference(g, i, j) == monitor[g][i] - monitor[g][j]

\* the pair i, j stayed together (offset false) or at a distance (offset
\* true) within the tolerance of the call over the window
AsCollapse(i, j) ==
    IF call.offset
    THEN \A g, h \in Window :
             Difference(g, i, j) - Difference(h, i, j) <= call.tolerance[1]
    ELSE \A g \in Window :
             /\ Difference(g, i, j) <= call.tolerance[1]
             /\ 0 - Difference(g, i, j) <= call.tolerance[1]

\* the pairs (i, j) a call of collapse_as has returned
ReturnedPairs == {<<e.e1, e.e2>> : e \in result.value.elems}

\* C18: collapse_as returns exactly the pairs (i,j), i < j, with
\* max |x_i - x_j| <= tolerance (offset false) or ptp(x_i - x_j) <= tolerance
\* (offset true) over the last N generations, minus the pairs the mask
\* selects: a bare index selects every pair that holds it, a pair selects
\* the pair in either order.
C18_CollapseAsExact ==
    (call.detector = "collapse_as" /\ result.raised = "none")
        => /\ result.value.kind = "set"
           /\ \A e \in result.value.elems : e.ty = "tuple" /\ e.n = 2
           /\ ReturnedPairs
                  = {p \in Pairs(nMeasures * 2 * nPts) :
                        AsCollapse(p[1], p[2]) /\ ~MaskedPair(p[1], p[2])}

Detectors ==
    {"collapse_at", "collapse_as", "collapse_weight", "collapse_position"}

\* the container holds nothing
IsEmpty(value) ==
    /\ value.elems = {}
    /\ value.entries = {}
    /\ Len(value.measures) = 0
    /\ Len(value.items) = 0

\* C19: when the monitor holds fewer than N recorded generations (N the
\* generations argument), a detector called with a mask it accepts returns
\* the empty container, whatever the recorded values and the tolerance are.
C19_ShortHistoryEmpty ==
    (/\ call.detector \in Detectors
     /\ Len(monitor) < call.generations
     /\ result.raised = "none" \/ result.read)
        => result.raised = "none" /\ IsEmpty(result.value)

\* the container types a detector documents for its mask
AcceptedType(d, mask) ==
    IF d \in {"collapse_at", "collapse_as"} THEN mask.kind = "set"
    ELSE mask.kind \in {"set", "dict", "tuple"}

IsIndex(i) == i.ty \in {"int", "npint"}

IsPair(i) ==
    i.ty = "tuple" /\ i.n = 2 /\ i.t1 \in {"int", "npint"}
        /\ i.t2 \in {"int", "npint"}

\* the element of a set mask, or of a set in a dict mask, is not of the form
\* detector d documents
BadItem(d, i) ==
    IF d \in {"collapse_at", "collapse_weight"} THEN ~IsIndex(i)
    ELSE IF d = "collapse_as" THEN ~IsIndex(i) /\ ~IsPair(i)
    ELSE ~IsPair(i)

\* the tuple (measure, item) of items i of a set mask of collapse_weight or
\* collapse_position, taken apart
Measure(i) == Scalar(i.t1, i.e1)

Item(i) ==
    IF i.t2 = "tuple" THEN Tuple(2, "int", i.e2, "int", i.e3)
    ELSE Scalar(i.t2, i.e2)

\* a mask of an accepted container type with a malformed element
Malformed(d, mask) ==
    IF mask.kind = "set"
    THEN IF d \in {"collapse_at", "collapse_as"}
         THEN \E i \in mask.elems : BadItem(d, i)
         ELSE \E i \in mask.elems :
                 \/ i.ty # "tuple" \/ i.n # 2
                 \/ ~IsIndex(Measure(i)) \/ BadItem(d, Item(i))
    ELSE IF mask.kind = "dict"
    THEN \E e \in mask.entries :
             \/ ~IsIndex(e.k) \/ ~e.isset
             \/ \E i \in e.v : BadItem(d, i)
    ELSE \/ Len(mask.measures) # Len(mask.items)
         \/ \E k \in 1 .. Len(mask.measures) : ~IsIndex(mask.measures[k])
         \/ \E k \in 1 .. Len(mask.items) : BadItem(d, mask.items[k])

\* C20: each detector validates the mask before it reads the monitor: a mask
\* that is neither None nor of an accepted container type raises TypeError, a
\* mask of an accepted container type with a malformed element raises
\* ValueError, and the monitor has not been read when the error is raised.
C20_BadMask ==
    (call.detector \in Detectors /\ call.mask.kind # "None") =>
        /\ ~AcceptedType(call.detector, call.mask)
               => result.raised = "TypeError" /\ ~result.read
        /\ (AcceptedType(call.detector, call.mask)
                /\ Malformed(call.detector, call.mask))
               => result.raised = "ValueError" /\ ~result.read

\* the cost of the trial that the selection step at pc = "select" compares
TrialCost ==
    IF invariant_current THEN trialEnergy[candidate + 1] ELSE trialEnergy

\* C21: tie-break -- in both solvers the selection step replaces
\* population[i] only when trial_cost < energies[i]; on trial_cost equal to
\* (or above) energies[i] it leaves population, energies, genealogy,
\* best_vector and best_energy unchanged; best is changed only by a trial
\* cost strictly below best_energy.
C21_TieBreak ==
    [][pc = "select" =>
          /\ TrialCost >= popEnergy[candidate] =>
                 UNCHANGED <<population, popEnergy, genealogy,
                             bestSolution, bestEnergy>>
          /\ (population' # population \/ popEnergy' # popEnergy
                  \/ genealogy' # genealogy)
                 => TrialCost < popEnergy[candidate]
          /\ (bestSolution' # bestSolution \/ bestEnergy' # bestEnergy)
                 => TrialCost < bestEnergy /\ bestEnergy' = TrialCost]_vars

\* the sequential solver has just passed candidate - 1, whose trial had the
\* energy of the slot and was another vector: the slot still holds its vector
C21_Witness ==
    /\ ~invariant_current
    /\ pc = "strategy"
    /\ candidate > 0
    /\ trialEnergy = popEnergy[candidate - 1]
    /\ trialSolution # population[candidate - 1]
    /\ genealogy[candidate - 1] # << >>

\* C22: in the sequential solver the evaluation limit is checked before each
\* candidate, so that fcalls never exceeds max_fun, and the iteration in
\* which the limit is hit still runs the user callback.
C22_LimitPerCandidate ==
    (~invariant_current /\ solves = 1 /\ pc # "ready") =>
        /\ fcalls <= maxfun
        /\ (stopReason = "maxfun" /\ pc \in {"exit", "returned", "done"})
               => ncallback = started

\* the iterations the running Solve has completed: those it started, less
\* the one it is in and less the one the evaluation limit made it leave
CompletedIterations ==
    IF pc = "ready" THEN 0
    ELSE IF pc \in {"limit", "strategy", "cost", "map", "select", "endgen"}
    THEN started - 1
    ELSE IF stopReason = "maxfun" THEN started - 1
    ELSE started

\* C23: energy_history gets exactly one entry per completed iteration, equal
\* to best_energy at the end of that iteration; the number of entries a Solve
\* has appended is the number of iterations it has completed, also when the
\* run ended on the evaluation limit.
C23_EnergyHistory ==
    solves <= 1 =>
        /\ Len(energy_history) = CompletedIterations
        /\ (Len(energy_history) > 0
                /\ pc \in {"loop", "limit", "exit", "returned", "done"})
               => energy_history[Len(energy_history)] = bestEnergy

\* a run that improved its best energy in its first iteration and was ended
\* by the evaluation limit at the head of the second has returned
C23_Witness ==
    /\ pc = "returned"
    /\ stopReason = "maxfun"
    /\ started = 2
    /\ Len(energy_history) = 1
    /\ energy_history[1] < Sentinel

\* C24: genealogy -- in both solvers each replacement of slot i appends
\* exactly one entry to genealogy[i], the vector accepted into population[i],
\* and no entry is ever changed or removed: the last entry of a non-empty
\* genealogy[i] is population[i].
C24_Genealogy ==
    \A i \in Slots :
        genealogy[i] # << >> =>
            genealogy[i][Len(genealogy[i])] = population[i]

\* parameter i stayed within tolerance t over the window of the call
AtCollapseWithin(i, t) ==
    IF call.target.given
    THEN \A g \in Window :
             /\ monitor[g][i] - call.target.v[i] <= t
             /\ call.target.v[i] - monitor[g][i] <= t
    ELSE \A g, h \in Window : monitor[g][i] - monitor[h][i] <= t

\* C25: collapse_at with a tolerance vector t, one entry per parameter,
\* returns exactly the unmasked indices i whose range (target None) or
\* largest deviation from target_i over the window is <= t[i]; no index is
\* reported for being within the tolerance of another index.
C25_PerIndexTolerance ==
    (/\ call.detector = "collapse_at"
     /\ result.raised = "none"
     /\ Len(call.tolerance) = nMeasures * 2 * nPts)
        => {e.n : e \in result.value.elems}
               = {i \in Params :
                     ~Masked(i) /\ AtCollapseWithin(i, call.tolerance[i + 1])}

\* ---------------------------------------------------------------- C26
\* a set mask of collapse_as whose elements are all bare ints or 2-tuples of
\* ints
WellFormed(mask) == \A i \in mask.elems : IsIndex(i) \/ IsPair(i)

\* C26: collapse_as rejects with an error, before reading the monitor, every
\* set mask that contains an element which is neither a bare int nor a
\* 2-tuple of ints, and accepts every set mask whose elements are all bare
\* ints or 2-tuples of ints (no error that stems from the mask is raised).
C26_MaskElements ==
    (call.detector = "collapse_as" /\ call.mask.kind = "set") =>
        IF WellFormed(call.mask)
        THEN result.raised = "none" \/ (result.raised = "ValueError" /\ result.read)
        ELSE result.raised \notin {"none", "nocall"} /\ ~result.read

\* ---------------------------------------------------------------- C27
\* C27: termination.  Every call to Solve of either solver eventually
\* returns, after starting at most max_iter generations, where max_iter is
\* D*NP*10 when it was left unset; this holds also when the predicate never
\* fires, no interrupt arrives and fcalls never reaches max_fun.
C27_Termination ==
    /\ [][(pc = "ready" /\ maxiter = None) => maxiter' = nDim * nPop * 10]_vars
    /\ [][(pc = "ready" /\ maxiter # None) => maxiter' = maxiter]_vars
    /\ [](pc # "ready" => started <= maxiter)
    /\ <>(pc \in {"returned", "done"})

\* Solve has returned from a run with max_iter unset in which the predicate
\* never fired and the evaluation limit was not reached: it ran D*NP*10
\* generations
C27_Witness ==
    /\ pc = "returned"
    /\ ftol = NeverFires
    /\ stopReason = "maxiter"
    /\ started = nDim * nPop * 10
    /\ fcalls < maxfun

\* ---------------------------------------------------------------- C28
\* the fields of the solver the replacement step writes
Replaced ==
    <<population, popEnergy, bestSolution, bestEnergy, genealogy,
      energy_history>>

\* C28: cost evaluation failure.  When the cost function raises during a
\* generation, the exception leaves Solve and diffev (nothing runs after it,
\* the evaluation is not retried); in the invariant-generation solver the
\* population, the energies, best_vector, best_energy, the genealogy and
\* energy_history are then as they were at the start of that generation: no
\* step between the start of the generation and the failure writes them.
C28_CostFailure ==
    /\ [][pc # "raised"]_vars
    /\ []((pc = "raised" /\ invariant_current) => Snapshot = genStart)
    /\ [][(invariant_current /\ pc \in {"strategy", "map"})
              => UNCHANGED Replaced]_vars

\* the cost function raised in a later generation of the invariant-generation
\* solver, after some trials of that generation had been evaluated and after
\* an earlier generation had replaced a slot
C28_Witness ==
    /\ pc = "raised"
    /\ invariant_current
    /\ started >= 2
    /\ Len(trialEnergy) >= 1
    /\ \E i \in Slots : genealogy[i] # << >>

\* ---------------------------------------------------------------- C29
\* C29: the generations attribute is assigned once per Solve, by the step
\* that leaves Solve after the generation loop has exited, and then holds the
\* zero-based index of the last generation started, which is the number of
\* step-monitor calls of this Solve minus one; every other step, the
\* predicate and the callback at the end of a generation among them, finds
\* the value generations had before Solve was called.
C29_Generations ==
    /\ [](pc \in {"returned", "done"} => generations = started - 1)
    /\ [][generations' # generations => (pc = "exit" /\ pc' = "returned")]_vars

\* a second Solve on the instance was stopped by the predicate at the end of
\* its second iteration and has stored the index 1
C29_Witness ==
    /\ pc = "returned"
    /\ solves = 2
    /\ stopReason = "predicate"
    /\ started = 2
    /\ generations = 1

\* ---------------------------------------------------------------- C30
\* x[d] brought into the strict range
Cropped(x) ==
    [d \in Dims |-> IF x[d] < strictMin[d] THEN strictMin[d]
                    ELSE IF x[d] > strictMax[d] THEN strictMax[d] ELSE x[d]]

\* energy_history' continues energy_history
Continues ==
    /\ Len(energy_history') >= Len(energy_history)
    /\ SubSeq(energy_history', 1, Len(energy_history)) = energy_history

\* C30: frame of the start-up of Solve.  Before its first generation each
\* call of Solve sets best_energy to the sentinel and the early-exit flag to
\* false, fills unset limits with the defaults, clips the population when
\* strict ranges are in use, and leaves popEnergy, best_vector, the genealogy
\* and energy_history as the previous call left them; no step ever removes an
\* entry of energy_history, so a second Solve appends to the history of the
\* first.
C30_StartupFrame ==
    /\ [][pc = "ready" =>
             /\ bestEnergy' = Sentinel
             /\ ~EARLYEXIT'
             /\ maxiter' # None /\ (maxiter # None => maxiter' = maxiter)
             /\ maxfun' = IF maxfun = None THEN nDim * nPop * 1000 ELSE maxfun
             /\ population' = IF useStrictRange
                              THEN [i \in Slots |-> Cropped(population[i])]
                              ELSE population
             /\ UNCHANGED <<popEnergy, bestSolution, genealogy,
                            energy_history>>]_vars
    /\ [][Continues]_vars

\* a second Solve with strict ranges has just started on an instance: the
\* flag is down, best_energy is the sentinel again, and the energies,
\* best_vector, the genealogy and the history of the first Solve are still
\* there
C30_Witness ==
    /\ pc = "loop"
    /\ solves = 2
    /\ started = 0
    /\ intPc = "none"
    /\ useStrictRange
    /\ bestEnergy = Sentinel
    /\ Len(energy_history) >= 1
    /\ \E i \in Slots : popEnergy[i] < Sentinel /\ genealogy[i] # << >>
    /\ bestSolution # Zero

====
